---- MODULE Spec2Model ----
(***************************************************************************)
(* A model of src/app.py: the HTML -> Ricos conversion (html_to_ricos),    *)
(* its image resolver (resolve_image_src, wrap_image) and its spacing      *)
(* helpers (apply_spacing, ensure_spacing).                                *)
(*                                                                         *)
(* Strings the code inspects (an <img src>, an href, a text node) are      *)
(* sequences of tokens whose concatenation is the string; the tokens are   *)
(* cut so that every substring test of the code ("~mv2.", "/", "http://",  *)
(* "static.wixstatic.com/media/") is a test on whole tokens.               *)
(* Python values that can be a dict, a str or None are records with a      *)
(* "kind" field.  The ids generate_id() draws (uuid4) are left out of the  *)
(* blocks, and so are the decorations of a text run other than its link    *)
(* (bold class, colour, underline, font size): no branch of the code reads *)
(* them back.                                                              *)
(***************************************************************************)
EXTENDS Naturals, Sequences, FiniteSets, TLC

\* ------------------------------------------------------------------ bounds

\* Longest document (number of top-level elements of the body).
MaxElems == 2

\* Longest substitution queue (images_fifo) a conversion starts with.
MaxQueue == 2

\* Number of resolve_image_src calls of one run of the resolver specification.
MaxCalls == 2

\* Longest block sequence handed to the spacing helpers on their own.
MaxLen == 3

\* Largest required count handed to ensure_spacing on its own.
MaxRequired == 2

\* ------------------------------------------------------------ string tools

\* s[i..i+Len(pat)-1] = pat
MatchAt(s, pat, i) ==
    /\ i + Len(pat) - 1 <= Len(s)
    /\ \A k \in 1..Len(pat) : s[i + k - 1] = pat[k]

\* Python's `pat in s`
Contains(s, pat) == \E i \in 1..(Len(s) + 1) : MatchAt(s, pat, i)

\* Python's s.startswith(pat)
StartsWith(s, pat) == MatchAt(s, pat, 1)

\* Positions of "/" in s.
SlashAt(s) == {i \in 1..Len(s) : s[i] = "/"}

\* os.path.basename(s): what follows the last "/".
Basename(s) ==
    IF SlashAt(s) = {} THEN s
    ELSE LET last == CHOOSE i \in SlashAt(s) : \A j \in SlashAt(s) : j <= i
         IN  SubSeq(s, last + 1, Len(s))

IsSpace(tok) == tok = " "

RECURSIVE LStrip(_)
LStrip(s) == IF s # <<>> /\ IsSpace(Head(s)) THEN LStrip(Tail(s)) ELSE s

RECURSIVE RStrip(_)
RStrip(s) ==
    IF s # <<>> /\ IsSpace(s[Len(s)]) THEN RStrip(SubSeq(s, 1, Len(s) - 1)) ELSE s

\* Python's str.strip()
Strip(s) == RStrip(LStrip(s))

WixIdMark == <<"~mv2.">>
WixStaticPrefix == <<"static.wixstatic.com", "/", "media", "/">>

\* ------------------------------------------------------ image object values

\* None, a str, or a dict with the keys _normalize_img_obj reads.  An absent
\* key and an empty value are both <<>>: the code only tests them for truth.
ValNone == [kind |-> "none", id |-> <<>>, ID |-> <<>>, mediaId |-> <<>>,
            hasDims |-> FALSE, s |-> <<>>]

ValStr(str) == [kind |-> "str", id |-> <<>>, ID |-> <<>>, mediaId |-> <<>>,
                hasDims |-> FALSE, s |-> str]

ValDict(id, ID, mediaId, dims) ==
    [kind |-> "dict", id |-> id, ID |-> ID, mediaId |-> mediaId,
     hasDims |-> dims, s |-> <<>>]

\* "~mv2." in s and "static.wixstatic.com/media/" not in s: a raw media id.
LooksLikeMediaId(str) == Contains(str, WixIdMark) /\ ~Contains(str, WixStaticPrefix)

\* Python's `a or b` on strings.
OrElse(a, b) == IF a # <<>> THEN a ELSE b

\* _normalize_img_obj(obj): a dict {"id": ...} or None.
NormalizeImgObj(obj) ==
    IF obj.kind = "dict" THEN
        LET media_id == OrElse(obj.id, OrElse(obj.ID, obj.mediaId))
        IN  IF media_id = <<>> THEN ValNone
            ELSE ValDict(media_id, <<>>, <<>>, obj.hasDims)
    ELSE IF obj.kind = "str" THEN
        IF LooksLikeMediaId(obj.s)
        THEN ValDict(obj.s, <<>>, <<>>, FALSE)
        ELSE ValNone
    ELSE ValNone

\* is_absolute_url(url)
IsAbsoluteUrl(url) ==
    \/ StartsWith(url, <<"http:", "/", "/">>)
    \/ StartsWith(url, <<"https:", "/", "/">>)
    \/ StartsWith(url, <<"/", "/">>)

\* ------------------------------------------------------------------ blocks

\* empty_paragraph(): the Spacer.
EmptyParagraph ==
    [type |-> "PARAGRAPH", level |-> 0, nodes |-> <<>>, media |-> ValNone,
     alt |-> <<>>]

\* build_text_node(text, link=...): the decorations follow from `link`.
BuildTextNode(text, link) == [type |-> "TEXT", text |-> text, link |-> link]

\* wrap_paragraph_nodes(nodes)
WrapParagraphNodes(parts) ==
    [type |-> "PARAGRAPH", level |-> 0, nodes |-> parts, media |-> ValNone,
     alt |-> <<>>]

\* wrap_heading(text, level)
WrapHeading(text, level) ==
    [type |-> "HEADING", level |-> level,
     nodes |-> <<BuildTextNode(text, FALSE)>>, media |-> ValNone, alt |-> <<>>]

\* wrap_list(items, ordered)
WrapList(items, ordered) ==
    [type |-> IF ordered THEN "ORDERED_LIST" ELSE "BULLETED_LIST", level |-> 0,
     nodes |-> [i \in 1..Len(items) |-> [type |-> "LIST_ITEM", nodes |-> items[i]]],
     media |-> ValNone, alt |-> <<>>]

\* The TEXT nodes of a cell, rebuilt without their links (wrap_table).
RECURSIVE CellTexts(_)
CellTexts(cell) ==
    IF cell = <<>> THEN <<>>
    ELSE (IF Head(cell).type = "TEXT"
          THEN <<BuildTextNode(Head(cell).text, FALSE)>> ELSE <<>>)
         \o CellTexts(Tail(cell))

\* wrap_table(table_data)
WrapTable(table_data) ==
    [type |-> "TABLE", level |-> 0,
     nodes |-> [r \in 1..Len(table_data) |->
                 [type |-> "TABLE_ROW",
                  nodes |-> [c \in 1..Len(table_data[r]) |->
                              [type |-> "TABLE_CELL",
                               nodes |-> CellTexts(table_data[r][c])]]]],
     media |-> ValNone, alt |-> <<>>]

\* wrap_image(img_obj, alt): an IMAGE block, or None (kind "none").
NoBlock == [type |-> "NONE", level |-> 0, nodes |-> <<>>, media |-> ValNone,
            alt |-> <<>>]

WrapImage(img_obj, alt) ==
    LET norm == NormalizeImgObj(img_obj)
    IN  IF norm.kind = "none" \/ norm.id = <<>> THEN NoBlock
        ELSE [type |-> "IMAGE", level |-> 0, nodes |-> <<>>, media |-> norm,
              alt |-> alt]

\* ---------------------------------------------------------------- resolver

\* `if image_url_map:` -- None and {} are both the empty map here.
MapTruthy(map) == DOMAIN map # {}

\* A resolver that takes from the queue before it looks in the map.
ResolveImageSrc_QueueFirst(src, base, map, fifo) ==
    IF src = <<>> THEN [val |-> ValNone, fifo |-> fifo]
    ELSE IF Len(fifo) > 0
    THEN [val |-> Head(fifo), fifo |-> Tail(fifo)]
    ELSE IF MapTruthy(map) /\ src \in DOMAIN map
    THEN [val |-> map[src], fifo |-> fifo]
    ELSE IF MapTruthy(map) /\ Basename(src) \in DOMAIN map
    THEN [val |-> map[Basename(src)], fifo |-> fifo]
    ELSE IF LooksLikeMediaId(src)
    THEN [val |-> ValDict(src, <<>>, <<>>, FALSE), fifo |-> fifo]
    ELSE [val |-> ValNone, fifo |-> fifo]

\* A resolver that falls back on plain URLs: src itself when absolute, else
\* src put after the base URL.
ResolveImageSrc_UrlFallback(src, base, map, fifo) ==
    IF src = <<>> THEN [val |-> ValNone, fifo |-> fifo]
    ELSE IF MapTruthy(map) /\ src \in DOMAIN map
    THEN [val |-> map[src], fifo |-> fifo]
    ELSE IF MapTruthy(map) /\ Basename(src) \in DOMAIN map
    THEN [val |-> map[Basename(src)], fifo |-> fifo]
    ELSE IF Len(fifo) > 0
    THEN [val |-> Head(fifo), fifo |-> Tail(fifo)]
    ELSE IF LooksLikeMediaId(src)
    THEN [val |-> ValDict(src, <<>>, <<>>, FALSE), fifo |-> fifo]
    ELSE IF IsAbsoluteUrl(src) THEN [val |-> ValStr(src), fifo |-> fifo]
    ELSE IF base # <<>> THEN [val |-> ValStr(base \o src), fifo |-> fifo]
    ELSE [val |-> ValNone, fifo |-> fifo]

\* resolve_image_src(src, base_url, image_url_map, images_fifo), with base,
\* map and fifo for its last three parameters: the image
\* object returned and the queue as the call leaves it (pop(0) mutates the
\* caller's list).  images_fifo None and [] are both <<>>.
ResolveImageSrc(src, base, map, fifo) ==
    IF src = <<>> THEN [val |-> ValNone, fifo |-> fifo]
    ELSE IF MapTruthy(map) /\ src \in DOMAIN map
    THEN [val |-> map[src], fifo |-> fifo]
    ELSE IF MapTruthy(map) /\ Basename(src) \in DOMAIN map
    THEN [val |-> map[Basename(src)], fifo |-> fifo]
    ELSE IF Len(fifo) > 0
    THEN [val |-> Head(fifo), fifo |-> Tail(fifo)]
    ELSE IF LooksLikeMediaId(src)
    THEN [val |-> ValDict(src, <<>>, <<>>, FALSE), fifo |-> fifo]
    ELSE [val |-> ValNone, fifo |-> fifo]

\* ----------------------------------------------------------------- spacing

NoType == "NONE"

\* apply_spacing(nodes, block_type): (before, after); dict.get(..., 0).
ApplySpacing(ns, block_type) ==
    [before |-> CASE block_type = "H2" -> 2
                  [] block_type \in {"H3", "H4", "ORDERED_LIST", "BULLETED_LIST",
                                     "PARAGRAPH", "IMAGE"} -> 1
                  [] OTHER -> 0,
     after  |-> CASE block_type \in {"H2", "H3", "H4", "ORDERED_LIST",
                                     "BULLETED_LIST", "PARAGRAPH", "IMAGE"} -> 1
                  [] block_type = "TABLE" -> 2
                  [] OTHER -> 0]

\* n["type"] == "PARAGRAPH" and not n["nodes"]
IsEmptyParagraph(n) == n.type = "PARAGRAPH" /\ Len(n.nodes) = 0

\* count_trailing_empty_paragraphs(nodes)
RECURSIVE CountTrailingEmptyParagraphs(_)
CountTrailingEmptyParagraphs(ns) ==
    IF ns # <<>> /\ IsEmptyParagraph(ns[Len(ns)])
    THEN 1 + CountTrailingEmptyParagraphs(SubSeq(ns, 1, Len(ns) - 1))
    ELSE 0

\* k Spacers.
Spacers(k) == [i \in 1..k |-> EmptyParagraph]

\* An ensure_spacing that appends `required` Spacers without counting those
\* already there.
EnsureSpacing_NoCount(ns, required) ==
    LET current == CountTrailingEmptyParagraphs(ns)
    IN  IF current < required THEN ns \o Spacers(required)
        ELSE SubSeq(ns, 1, Len(ns) - (current - required))

\* ensure_spacing(nodes, required): append while current < required, then pop
\* while current > required.
EnsureSpacing(ns, required) ==
    LET current == CountTrailingEmptyParagraphs(ns)
    IN  IF current < required THEN ns \o Spacers(required - current)
        ELSE SubSeq(ns, 1, Len(ns) - (current - required))

\* A closing trim with `if` for `while`: one pop at most.
TrimTrailing_PopOnce(ns) ==
    IF ns # <<>> /\ IsEmptyParagraph(ns[Len(ns)])
    THEN SubSeq(ns, 1, Len(ns) - 1)
    ELSE ns

\* The closing loop of html_to_ricos: pop while the last node is an empty
\* paragraph.
RECURSIVE TrimTrailing(_)
TrimTrailing(ns) ==
    IF ns # <<>> /\ IsEmptyParagraph(ns[Len(ns)])
    THEN TrimTrailing(SubSeq(ns, 1, Len(ns) - 1))
    ELSE ns

\* An add_node without the Image-before-H2 override.
AddNode_NoOverride(ns, node, block_type, prev_type) ==
    IF node = NoBlock THEN [nodes |-> ns, prev |-> prev_type]
    ELSE LET sp == ApplySpacing(ns, block_type)
             placed == Append(EnsureSpacing(ns, sp.before), node)
             got == CountTrailingEmptyParagraphs(placed)
             needed == IF sp.after > got THEN sp.after - got ELSE 0
         IN  [nodes |-> placed \o Spacers(needed), prev |-> block_type]

\* An add_node that returns block_type also when it was given no node.
AddNode_PrevAlways(ns, node, block_type, prev_type) ==
    IF node = NoBlock THEN [nodes |-> ns, prev |-> block_type]
    ELSE LET sp == ApplySpacing(ns, block_type)
             b == IF block_type = "H2" /\ prev_type = "IMAGE" THEN 1 ELSE sp.before
             placed == Append(EnsureSpacing(ns, b), node)
             got == CountTrailingEmptyParagraphs(placed)
             needed == IF sp.after > got THEN sp.after - got ELSE 0
         IN  [nodes |-> placed \o Spacers(needed), prev |-> block_type]

\* add_node(node, block_type, prev_type): the block list and the value
\* returned (the caller's next prev).
AddNode(ns, node, block_type, prev_type) ==
    IF node = NoBlock THEN [nodes |-> ns, prev |-> prev_type]
    ELSE LET sp == ApplySpacing(ns, block_type)
             b == IF block_type = "H2" /\ prev_type = "IMAGE" THEN 1 ELSE sp.before
             placed == Append(EnsureSpacing(ns, b), node)
             got == CountTrailingEmptyParagraphs(placed)
             needed == IF sp.after > got THEN sp.after - got ELSE 0
         IN  [nodes |-> placed \o Spacers(needed), prev |-> block_type]

\* --------------------------------------------------------------- the tree

\* An attribute of a tag: absent (tag.get(name) is None, tag[name] raises
\* KeyError), or present with a value that may be empty.
NoAttr == [present |-> FALSE, val |-> <<>>]
Attr(v) == [present |-> TRUE, val |-> v]

\* tag.get(name) is truthy.
AttrTruthy(a) == a.present /\ a.val # <<>>

\* A NavigableString.
Text(t) == [tag |-> "#text", src |-> NoAttr, href |-> NoAttr, alt |-> NoAttr,
            text |-> t, children |-> <<>>]

\* A Tag.
Elem(tag, children) ==
    [tag |-> tag, src |-> NoAttr, href |-> NoAttr, alt |-> NoAttr,
     text |-> <<>>, children |-> children]

Img(src, alt) == [tag |-> "img", src |-> src, href |-> NoAttr, alt |-> alt,
                  text |-> <<>>, children |-> <<>>]

Anchor(href, children) ==
    [tag |-> "a", src |-> NoAttr, href |-> href, alt |-> NoAttr,
     text |-> <<>>, children |-> children]

IsTag(item) == item.tag # "#text"

\* The tags among `items` and their descendants named in `names`, in document
\* order: what tag.find_all(names) returns for a tag with children `items`.
RECURSIVE FindAll(_, _)
FindAll(items, names) ==
    IF items = <<>> THEN <<>>
    ELSE LET c == Head(items)
         IN  (IF IsTag(c) /\ c.tag \in names THEN <<c>> ELSE <<>>)
             \o FindAll(c.children, names)
             \o FindAll(Tail(items), names)

\* tag.find_all(names, recursive=False): the direct children only.
RECURSIVE FindDirect(_, _)
FindDirect(items, names) ==
    IF items = <<>> THEN <<>>
    ELSE (IF IsTag(Head(items)) /\ Head(items).tag \in names
          THEN <<Head(items)>> ELSE <<>>)
         \o FindDirect(Tail(items), names)

\* tag.get_text(): the strings of the subtree, concatenated.
RECURSIVE GetText(_)
GetText(items) ==
    IF items = <<>> THEN <<>>
    ELSE LET c == Head(items)
         IN  (IF IsTag(c) THEN GetText(c.children) ELSE c.text)
             \o GetText(Tail(items))

\* tag.get_text(strip=True): each string stripped, the empty ones dropped.
RECURSIVE GetTextStrip(_)
GetTextStrip(items) ==
    IF items = <<>> THEN <<>>
    ELSE LET c == Head(items)
         IN  (IF IsTag(c) THEN GetTextStrip(c.children) ELSE Strip(c.text))
             \o GetTextStrip(Tail(items))

\* tag.get(name, ""): the attribute or the default.
AttrOr(a, default) == IF a.present THEN a.val ELSE default

\* extract_parts(tag, ...) for a tag with children `items`: TEXT nodes only;
\* <br> and an <img> with a src contribute nothing, an <a href> one linked
\* run, any other tag what its children contribute.
RECURSIVE ExtractParts(_)
ExtractParts(items) ==
    IF items = <<>> THEN <<>>
    ELSE LET item == Head(items)
             here ==
                 IF ~IsTag(item)
                 THEN IF Strip(item.text) # <<>>
                      THEN <<BuildTextNode(item.text, FALSE)>> ELSE <<>>
                 ELSE IF item.tag = "br" THEN <<>>
                 ELSE IF item.tag = "img" /\ AttrTruthy(item.src) THEN <<>>
                 ELSE IF item.tag = "a" /\ AttrTruthy(item.href)
                 THEN <<BuildTextNode(GetText(item.children), TRUE)>>
                 ELSE ExtractParts(item.children)
         IN  here \o ExtractParts(Tail(items))

\* --------------------------------------------------- the handlers of the loop

\* What one pass of the loop body works on: the block list, the queue, prev,
\* and whether an exception has left the function.
Ctx(ns, fifo, prev_type, raised) ==
    [nodes |-> ns, fifo |-> fifo, prev |-> prev_type, raised |-> raised]

\* u = resolve_image_src(src, ...); prev = add_node(wrap_image(u, alt), "IMAGE", prev)
EmitImage(ctx, src, alt, base, map) ==
    LET u == ResolveImageSrc(src, base, map, ctx.fifo)
        added == AddNode(ctx.nodes, WrapImage(u.val, alt), "IMAGE", ctx.prev)
    IN  Ctx(added.nodes, u.fifo, added.prev, FALSE)

\* for im in imgs: resolve_image_src(im["src"], ...) ... -- im["src"] raises
\* KeyError when the tag has no src attribute, and the loop is left there.
RECURSIVE PromoteImages(_, _, _, _)
PromoteImages(ctx, imgs, base, map) ==
    IF imgs = <<>> \/ ctx.raised THEN ctx
    ELSE LET im == Head(imgs)
         IN  IF ~im.src.present
             THEN Ctx(ctx.nodes, ctx.fifo, ctx.prev, TRUE)
             ELSE PromoteImages(EmitImage(ctx, im.src.val, AttrOr(im.alt, <<>>), base, map),
                                Tail(imgs), base, map)

\* if tag == "img" and elem.get("src"): a top-level image.  An <img> with no
\* src, or an empty one, matches no branch of the chain.
HandleImg(ctx, e, base, map) ==
    IF AttrTruthy(e.src)
    THEN EmitImage(ctx, e.src.val, AttrOr(e.alt, <<>>), base, map)
    ELSE ctx

\* elif tag in ["h2", "h3", "h4"]
HeadingLevel(tag) == CASE tag = "h2" -> 2 [] tag = "h3" -> 3 [] tag = "h4" -> 4

HeadingType(level) == CASE level = 2 -> "H2" [] level = 3 -> "H3" [] level = 4 -> "H4"

HandleHeading(ctx, e, base, map) ==
    LET level == HeadingLevel(e.tag)
        c1 == PromoteImages(ctx, FindAll(e.children, {"img"}), base, map)
        txt == GetTextStrip(e.children)
    IN  IF c1.raised \/ txt = <<>> THEN c1
        ELSE LET added == AddNode(c1.nodes, WrapHeading(txt, level),
                                  HeadingType(level), c1.prev)
             IN  Ctx(added.nodes, c1.fifo, added.prev, FALSE)

\* elif tag == "p": the direct <img> children are promoted, then the text.
\* Both branches of `if imgs:` end with the same extract_parts / add_node.
HandleP(ctx, e, base, map) ==
    LET imgs == FindDirect(e.children, {"img"})
        c1 == PromoteImages(ctx, imgs, base, map)
        parts == ExtractParts(e.children)
    IN  IF c1.raised \/ parts = <<>> THEN c1
        ELSE LET added == AddNode(c1.nodes, WrapParagraphNodes(parts),
                                  "PARAGRAPH", c1.prev)
             IN  Ctx(added.nodes, c1.fifo, added.prev, FALSE)

\* [extract_parts(x) for x in tags]
RECURSIVE PartsOfEach(_)
PartsOfEach(tags) ==
    IF tags = <<>> THEN <<>>
    ELSE <<ExtractParts(Head(tags).children)>> \o PartsOfEach(Tail(tags))

\* [i for i in items if i]
RECURSIVE NonEmpty(_)
NonEmpty(items) ==
    IF items = <<>> THEN <<>>
    ELSE (IF Head(items) # <<>> THEN <<Head(items)>> ELSE <<>>) \o NonEmpty(Tail(items))

\* elif tag in ["ul", "ol"]
HandleList(ctx, e, base, map) ==
    LET items == NonEmpty(PartsOfEach(FindDirect(e.children, {"li"})))
        btype == IF e.tag = "ol" THEN "ORDERED_LIST" ELSE "BULLETED_LIST"
    IN  IF items = <<>> THEN ctx
        ELSE LET added == AddNode(ctx.nodes, WrapList(items, e.tag = "ol"), btype, ctx.prev)
             IN  Ctx(added.nodes, ctx.fifo, added.prev, FALSE)

\* [[extract_parts(td) for td in tr.find_all(["td","th"])] for tr in elem.find_all("tr")]
RECURSIVE TableData(_)
TableData(trs) ==
    IF trs = <<>> THEN <<>>
    ELSE <<PartsOfEach(FindAll(Head(trs).children, {"td", "th"}))>> \o TableData(Tail(trs))

\* elif tag == "table"
HandleTable(ctx, e, base, map) ==
    LET table == TableData(FindAll(e.children, {"tr"}))
    IN  IF table = <<>> THEN ctx
        ELSE LET added == AddNode(ctx.nodes, WrapTable(table), "TABLE", ctx.prev)
             IN  Ctx(added.nodes, ctx.fifo, added.prev, FALSE)

\* ---------------------------------------------------------------- samples

SrcA == <<"a.png">>
SrcDirA == <<"img", "/", "a.png">>
SrcB == <<"b.png">>
SrcC == <<"c.png">>
SrcAbs == <<"https:", "/", "/", "host", "/", "d.png">>
SrcSchemeless == <<"/", "/", "host", "/", "d.png">>
SrcRawId == <<"x", "~mv2.", "png">>
SrcStatic == <<"https:", "/", "/", "static.wixstatic.com", "/", "media", "/",
               "x", "~mv2.", "png">>
SrcEmpty == <<>>

\* Every source string the resolver is tried on.
Srcs == {SrcA, SrcDirA, SrcB, SrcC, SrcAbs, SrcSchemeless, SrcRawId, SrcStatic,
         SrcEmpty}

\* An uploaded item as convert_html keeps it: its id and its width/height.
MediaA == ValDict(<<"m1", "~mv2.", "png">>, <<>>, <<>>, TRUE)
\* An entry holding a plain URL, which _normalize_img_obj refuses.
MediaUrl == ValStr(<<"https:", "/", "/", "static.wixstatic.com", "/", "media", "/",
                     "m2", "~mv2.", "png">>)
\* An entry with its id under "ID".
MediaUpper == ValDict(<<>>, <<"m3", "~mv2.", "png">>, <<>>, FALSE)

NoMap == [k \in {} |-> ValNone]
MapAB == [k \in {SrcA, SrcB} |-> IF k = SrcA THEN MediaA ELSE MediaUrl]
MapEmptyKey == [k \in {SrcEmpty, SrcAbs} |-> MediaUpper]

\* The i-th entry of a substitution queue.
QueueEntry(i) == ValDict(<<"q", ToString(i)>>, <<>>, <<>>, FALSE)

\* The queues a conversion may be handed: <<>>, <<q1>>, <<q1, q2>>, ...
Queues == {[i \in 1..n |-> QueueEntry(i)] : n \in 0..MaxQueue}

NoBase == <<>>
BaseUrl == <<"https:", "/", "/", "site", "/">>

Title == <<" ", "Title">>
Body == <<"body">>
Blank == <<" ">>

\* The src attributes of the documents' images.
DocSrcAttrs == {Attr(SrcA), Attr(SrcDirA), Attr(SrcB), Attr(SrcC), Attr(SrcRawId),
                Attr(SrcEmpty), NoAttr}

ImgElements == {Img(a, Attr(<<"alt">>)) : a \in DocSrcAttrs}

HeadingElements ==
    {Elem(t, <<Text(Title)>>) : t \in {"h2", "h3", "h4"}}
    \cup {Elem("h2", <<Text(Blank)>>)}
    \cup {Elem("h2", <<Img(a, NoAttr), Text(Title)>>) : a \in DocSrcAttrs}
    \cup {Elem("h3", <<Elem("span", <<Img(Attr(SrcC), NoAttr)>>),
                       Img(Attr(SrcA), NoAttr), Text(Title)>>),
          Elem("h4", <<Img(Attr(SrcC), NoAttr)>>)}

PElements ==
    {Elem("p", <<Text(Body)>>),
     Elem("p", <<Text(Blank), Elem("br", <<>>)>>),
     Elem("p", <<Anchor(Attr(SrcAbs), <<Text(<<"link">>)>>)>>),
     Elem("p", <<Img(Attr(SrcC), NoAttr), Text(Body)>>),
     Elem("p", <<Img(Attr(SrcC), NoAttr), Text(Blank), Img(Attr(SrcA), NoAttr)>>)}
    \cup {Elem("p", <<Img(a, NoAttr)>>) : a \in DocSrcAttrs}
    \cup {Elem("p", <<Elem("span", <<Img(Attr(s), NoAttr)>>)>>) : s \in {SrcA, SrcC}}

ListElements ==
    {Elem("ul", <<Elem("li", <<Text(Body)>>)>>),
     Elem("ol", <<Elem("li", <<Text(Body)>>), Elem("li", <<Text(Blank)>>)>>),
     Elem("ul", <<Elem("li", <<Img(Attr(SrcC), NoAttr)>>)>>)}

Row(tag) == Elem("tr", <<Elem("th", <<Text(Body)>>), Elem(tag, <<Text(Body)>>),
                         Elem(tag, <<>>)>>)

TableElements ==
    {Elem("table", <<Elem("tbody", <<Row("th"), Row("td")>>)>>),
     Elem("table", <<>>)}

OtherElements == {Elem("div", <<Text(Body)>>)}

\* ------------------------------------------------------------------- state

VARIABLES
    nodes,          \* html_to_ricos: the block list
    images_fifo,    \* the substitution queue
    image_url_map,  \* the substitution table
    base_url,
    prev,           \* html_to_ricos: the type of the last block added
    elem,           \* the loop's element
    processed,      \* how many elements the loop has taken
    pc,             \* where the operation under way is
    fifo0,          \* the queue as the operation under way found it
    seenImages,     \* <img> met so far in the places images are promoted from
    allPlain,       \* each of them had a src, non-empty and not in the map
    src,            \* resolve_image_src: its argument
    result,         \* resolve_image_src: what it returned
    wrapped,        \* wrap_image of that
    calls,          \* resolver calls made
    required,       \* ensure_spacing: its argument
    once,           \* the spacing helper applied once
    twice           \* and applied to its own result

vars == <<nodes, images_fifo, image_url_map, base_url, prev, elem, processed, pc,
          fifo0, seenImages, allPlain, src, result, wrapped, calls, required,
          once, twice>>

convVars == <<elem, processed, prev, seenImages, allPlain>>
resVars == <<src, result, wrapped, calls>>
normVars == <<required, once, twice>>

NoElem == Elem("#none", <<>>)

ConvIdle ==
    /\ elem = NoElem /\ processed = 0 /\ prev = NoType
    /\ seenImages = 0 /\ allPlain = TRUE

ResIdle == src = <<>> /\ result = ValNone /\ wrapped = NoBlock /\ calls = 0

NormIdle == required = 0 /\ once = <<>> /\ twice = <<>>

\* ------------------------------------------------------------ html_to_ricos

\* html_to_ricos(html, base_url, image_url_map, images_fifo) up to the loop.
Init ==
    /\ nodes = <<>>
    /\ image_url_map \in {NoMap, MapAB}
    /\ images_fifo \in Queues
    /\ fifo0 = images_fifo
    /\ base_url = BaseUrl
    /\ pc = "loop"
    /\ ConvIdle /\ ResIdle /\ NormIdle

MapHit(s) == s \in DOMAIN image_url_map \/ Basename(s) \in DOMAIN image_url_map

\* The <img> of an element that the loop is to promote: the element itself,
\* or those inside a heading or a paragraph.
PromotableImages(e) ==
    IF e.tag \in {"img", "h2", "h3", "h4", "p"} THEN FindAll(<<e>>, {"img"}) ELSE <<>>

PlainImage(im) == AttrTruthy(im.src) /\ ~MapHit(im.src.val)

\* One pass of the loop body on element e, r being what its branch made.
Step(e, r) ==
    /\ pc = "loop"
    /\ processed < MaxElems
    /\ elem' = e
    /\ processed' = processed + 1
    /\ nodes' = r.nodes
    /\ images_fifo' = r.fifo
    /\ prev' = r.prev
    /\ pc' = IF r.raised THEN "raised" ELSE "loop"
    /\ seenImages' = seenImages + Len(PromotableImages(e))
    /\ allPlain' = (allPlain /\ \A i \in 1..Len(PromotableImages(e)) :
                                    PlainImage(PromotableImages(e)[i]))
    /\ UNCHANGED <<image_url_map, base_url, fifo0>>
    /\ UNCHANGED resVars
    /\ UNCHANGED normVars

Here == Ctx(nodes, images_fifo, prev, FALSE)

StepImg == \E e \in ImgElements : Step(e, HandleImg(Here, e, base_url, image_url_map))

StepHeading ==
    \E e \in HeadingElements : Step(e, HandleHeading(Here, e, base_url, image_url_map))

StepP == \E e \in PElements : Step(e, HandleP(Here, e, base_url, image_url_map))

StepList == \E e \in ListElements : Step(e, HandleList(Here, e, base_url, image_url_map))

StepTable == \E e \in TableElements : Step(e, HandleTable(Here, e, base_url, image_url_map))

\* Any other tag matches no branch.
StepOther == \E e \in OtherElements : Step(e, Here)

\* The loop is over: trim the trailing empty paragraphs and return.
Finish ==
    /\ pc = "loop"
    /\ nodes' = TrimTrailing(nodes)
    /\ pc' = "done"
    /\ UNCHANGED <<images_fifo, image_url_map, base_url, fifo0>>
    /\ UNCHANGED convVars
    /\ UNCHANGED resVars
    /\ UNCHANGED normVars

Next ==
    \/ StepImg
    \/ StepHeading
    \/ StepP
    \/ StepList
    \/ StepTable
    \/ StepOther
    \/ Finish

Spec == Init /\ [][Next]_vars

\* ------------------------------------------- the resolver, call after call

\* resolve_image_src and wrap_image on their own: any map, queue and base
\* URL, then calls on any source, each followed by the caller's wrap_image.
InitResolve ==
    /\ nodes = <<>>
    /\ image_url_map \in {NoMap, MapAB, MapEmptyKey}
    /\ images_fifo \in Queues
    /\ fifo0 = images_fifo
    /\ base_url \in {NoBase, BaseUrl}
    /\ pc = "call"
    /\ ConvIdle /\ ResIdle /\ NormIdle

\* u = resolve_image_src(s, base_url, image_url_map, images_fifo)
CallResolve ==
    /\ pc = "call"
    /\ calls < MaxCalls
    /\ \E s \in Srcs :
           LET u == ResolveImageSrc(s, base_url, image_url_map, images_fifo)
           IN  /\ src' = s
               /\ result' = u.val
               /\ images_fifo' = u.fifo
    /\ fifo0' = images_fifo
    /\ calls' = calls + 1
    /\ pc' = "wrap"
    /\ UNCHANGED <<nodes, image_url_map, base_url, wrapped>>
    /\ UNCHANGED convVars
    /\ UNCHANGED normVars

\* wrap_image(u, alt)
CallWrapImage ==
    /\ pc = "wrap"
    /\ wrapped' = WrapImage(result, <<"alt">>)
    /\ pc' = "call"
    /\ UNCHANGED <<nodes, images_fifo, image_url_map, base_url, fifo0, src, result,
                   calls>>
    /\ UNCHANGED convVars
    /\ UNCHANGED normVars

NextResolve ==
    \/ CallResolve
    \/ CallWrapImage

SpecResolve == InitResolve /\ [][NextResolve]_vars

\* ------------------------------------------- the spacing helpers, on their own

TextParagraph == WrapParagraphNodes(<<BuildTextNode(Body, FALSE)>>)

SampleBlocks == {EmptyParagraph, TextParagraph, WrapTable(<<<<<<>>>>>>),
                 WrapImage(MediaA, <<>>)}

\* The sequences of at most n sample blocks.
RECURSIVE BlockSeqs(_)
BlockSeqs(n) ==
    IF n = 0 THEN {<<>>}
    ELSE BlockSeqs(n - 1)
         \cup {Append(q, b) : q \in {x \in BlockSeqs(n - 1) : Len(x) = n - 1},
                              b \in SampleBlocks}

\* Any block sequence and any required count.
InitNorm ==
    /\ nodes \in BlockSeqs(MaxLen)
    /\ required \in 0..MaxRequired
    /\ once = <<>>
    /\ twice = <<>>
    /\ pc = "norm"
    /\ image_url_map = NoMap
    /\ images_fifo = <<>>
    /\ fifo0 = <<>>
    /\ base_url = NoBase
    /\ ConvIdle /\ ResIdle

NormFrame ==
    /\ UNCHANGED <<nodes, images_fifo, image_url_map, base_url, fifo0, required>>
    /\ UNCHANGED convVars
    /\ UNCHANGED resVars

\* ensure_spacing(nodes, required)
Ensure ==
    /\ pc = "norm"
    /\ once' = EnsureSpacing(nodes, required)
    /\ pc' = "ensured"
    /\ UNCHANGED twice
    /\ NormFrame

\* ensure_spacing again, on what the first call left
EnsureAgain ==
    /\ pc = "ensured"
    /\ twice' = EnsureSpacing(once, required)
    /\ pc' = "ensured twice"
    /\ UNCHANGED once
    /\ NormFrame

\* the closing trim of html_to_ricos
Trim ==
    /\ pc = "norm"
    /\ once' = TrimTrailing(nodes)
    /\ pc' = "trimmed"
    /\ UNCHANGED twice
    /\ NormFrame

\* the closing trim again, on what the first left
TrimAgain ==
    /\ pc = "trimmed"
    /\ twice' = TrimTrailing(once)
    /\ pc' = "trimmed twice"
    /\ UNCHANGED once
    /\ NormFrame

NextNorm ==
    \/ Ensure
    \/ EnsureAgain
    \/ Trim
    \/ TrimAgain

SpecNorm == InitNorm /\ [][NextNorm]_vars

\* ------------------------------------------------- reading a block sequence

\* The type a block was added under: H2/H3/H4 for a heading.
BlockType(n) == IF n.type = "HEADING" THEN HeadingType(n.level) ELSE n.type

\* The blocks of ns that are not Spacers, in order.
RECURSIVE NonSpacers(_)
NonSpacers(ns) ==
    IF ns = <<>> THEN <<>>
    ELSE (IF IsEmptyParagraph(Head(ns)) THEN <<>> ELSE <<Head(ns)>>)
         \o NonSpacers(Tail(ns))

\* The type of the last block of ns that is not a Spacer, or NoType.
LastBlockType(ns) ==
    LET bs == NonSpacers(ns)
    IN  IF bs = <<>> THEN NoType ELSE BlockType(bs[Len(bs)])

\* The IMAGE blocks of ns, in order.
RECURSIVE Images(_)
Images(ns) ==
    IF ns = <<>> THEN <<>>
    ELSE (IF Head(ns).type = "IMAGE" THEN <<Head(ns)>> ELSE <<>>) \o Images(Tail(ns))

\* The Image blocks the images `imgs` stand for, in order, each resolved by
\* the resolver against the queue as the images before it left it; an image
\* with no src resolves to nothing.
RECURSIVE ExpectedImages(_, _)
ExpectedImages(imgs, fifo) ==
    IF imgs = <<>> THEN <<>>
    ELSE LET im == Head(imgs)
             u == ResolveImageSrc(AttrOr(im.src, <<>>), base_url, image_url_map, fifo)
             b == WrapImage(u.val, AttrOr(im.alt, <<>>))
         IN  (IF b = NoBlock THEN <<>> ELSE <<b>>) \o ExpectedImages(Tail(imgs), u.fifo)

\* ------------------------------------------------------------------ claims

\* C1: when html_to_ricos returns, the block sequence is empty or its last
\* block is not a Spacer (a PARAGRAPH with no inline nodes).
C1_NoTrailingSpacer ==
    pc = "done" => (nodes = <<>> \/ ~IsEmptyParagraph(nodes[Len(nodes)]))

\* C1's case: a conversion returned whose last block is a table, which the
\* loop had left followed by two Spacers.
C1_Witness ==
    /\ pc = "done"
    /\ prev = "TABLE"
    /\ nodes # <<>>
    /\ nodes[Len(nodes)].type = "TABLE"

\* C2: in a conversion whose N images (those of the places images are
\* promoted from, each with a non-empty src) all miss the map, started with a
\* queue of M <= N entries, the queue is empty at the return and the i-th
\* image block carries the i-th queue entry, for i up to M.
C2_QueueConsumedInOrder ==
    (pc = "done" /\ allPlain /\ Len(fifo0) <= seenImages) =>
        /\ images_fifo = <<>>
        /\ Len(Images(nodes)) >= Len(fifo0)
        /\ \A i \in 1..Len(fifo0) : Images(nodes)[i].media.id = fifo0[i].id

\* C5: html_to_ricos never raises: no image, whatever its source, takes the
\* conversion out of the loop by an exception.
C5_NeverRaises == pc # "raised"

HeadingWithImagesAndText(e) ==
    /\ e.tag \in {"h2", "h3", "h4"}
    /\ FindAll(e.children, {"img"}) # <<>>
    /\ GetTextStrip(e.children) # <<>>

\* C7: a pass of the loop over a heading that holds images and non-blank text
\* adds, Spacers aside, one Image block per image that resolves, in order,
\* and after them one Heading block whose inline nodes are text only.
C7_HeadingImagesThenHeading ==
    [][(pc = "loop" /\ processed' = processed + 1 /\ HeadingWithImagesAndText(elem')) =>
          /\ pc' = "loop"
          /\ LET new == NonSpacers(nodes')
                 imgs == ExpectedImages(FindAll(elem'.children, {"img"}), images_fifo)
                 h == new[Len(new)]
             IN  /\ Len(new) = Len(NonSpacers(nodes)) + Len(imgs) + 1
                 /\ SubSeq(new, 1, Len(new) - 1) = NonSpacers(nodes) \o imgs
                 /\ h.type = "HEADING"
                 /\ h.level = HeadingLevel(elem'.tag)
                 /\ \A k \in 1..Len(h.nodes) : h.nodes[k].type = "TEXT"]_vars

\* A <p> holding images, each with a src attribute, and no non-blank text.
OnlyImagesP(e) ==
    /\ e.tag = "p"
    /\ FindAll(e.children, {"img"}) # <<>>
    /\ \A i \in 1..Len(FindAll(e.children, {"img"})) :
           FindAll(e.children, {"img"})[i].src.present
    /\ GetTextStrip(e.children) = <<>>

\* C8: a pass of the loop over a <p> that holds only images, at any depth,
\* adds, Spacers aside, exactly one Image block per image whose source
\* resolves, and no Paragraph block.
C8_ImageOnlyParagraph ==
    [][(pc = "loop" /\ processed' = processed + 1 /\ OnlyImagesP(elem')) =>
          /\ pc' = "loop"
          /\ NonSpacers(nodes') =
                 NonSpacers(nodes)
                 \o ExpectedImages(FindAll(elem'.children, {"img"}), images_fifo)]_vars

\* The counts of the claim: Spacers before a block of type t ...
ClaimBefore(t) ==
    CASE t = "H2" -> 2
      [] t \in {"H3", "H4", "ORDERED_LIST", "BULLETED_LIST", "PARAGRAPH", "IMAGE"} -> 1
      [] t = "TABLE" -> 0

\* ... and after it.
ClaimAfter(t) == IF t = "TABLE" THEN 2 ELSE 1

\* The Spacers that end ns[1..i-1].
SpacersBefore(ns, i) == CountTrailingEmptyParagraphs(SubSeq(ns, 1, i - 1))

\* C9: every block that is not a Spacer has exactly before(T) Spacers right
\* before it (one, for a level-2 heading whose preceding block is an Image),
\* the first block included; and between two passes of the loop the sequence
\* ends with exactly after(T) Spacers, T the type of the last block added.
C9_Spacing ==
    /\ \A i \in 1..Len(nodes) :
           ~IsEmptyParagraph(nodes[i]) =>
               LET t == BlockType(nodes[i])
                   k == SpacersBefore(nodes, i)
                   before == LastBlockType(SubSeq(nodes, 1, i - 1))
               IN  k = IF t = "H2" /\ before = "IMAGE" THEN 1 ELSE ClaimBefore(t)
    /\ (pc = "loop" /\ prev # NoType) =>
           CountTrailingEmptyParagraphs(nodes) = ClaimAfter(prev)

\* C9's case: a level-2 heading added right after an Image block, a single
\* Spacer between them.
C9_Witness ==
    /\ pc = "loop"
    /\ Len(nodes) >= 4
    /\ \E i \in 3..Len(nodes) :
           /\ BlockType(nodes[i]) = "H2"
           /\ IsEmptyParagraph(nodes[i - 1])
           /\ nodes[i - 2].type = "IMAGE"

\* C10: prev is the type of the last block of the sequence that is not a
\* Spacer, or None when there is none; an image that yields no block leaves
\* it so.
C10_PrevIsLastBlock == prev = LastBlockType(nodes)

\* C10's case: after an Image block, a top-level <img> that resolves to
\* nothing (no map entry, the queue empty, no media id in its src) has been
\* passed to add_node, and prev is still IMAGE.
C10_Witness ==
    /\ pc = "loop"
    /\ processed = 2
    /\ elem = Img(Attr(SrcC), Attr(<<"alt">>))
    /\ images_fifo = <<>>
    /\ prev = "IMAGE"
    /\ Len(Images(nodes)) = 1


\* C3, as stated: a call with a src that is a key of the map returns that
\* entry and leaves the queue as it was, whatever src is.
C3_ExactKeyWins ==
    (calls > 0 /\ src \in DOMAIN image_url_map) =>
        /\ result = image_url_map[src]
        /\ images_fifo = fifo0

\* C3, amended: so it is for a non-empty src; an empty src returns None, the
\* queue untouched, before the map is looked at.
C3_NonEmptyExactKeyWins ==
    /\ (calls > 0 /\ src # <<>> /\ src \in DOMAIN image_url_map) =>
           /\ result = image_url_map[src]
           /\ images_fifo = fifo0
    /\ (calls > 0 /\ src = <<>>) =>
           /\ result = ValNone
           /\ images_fifo = fifo0

\* C3's case: an absolute URL that is a key of the map was resolved while the
\* queue held entries and a base URL was supplied.
C3_Witness ==
    /\ calls > 0
    /\ src \in DOMAIN image_url_map
    /\ IsAbsoluteUrl(src)
    /\ fifo0 # <<>>
    /\ base_url # NoBase
    /\ result = image_url_map[src]

\* No map entry, exact or by basename, no queue entry, no media id in src.
NothingButTheUrl ==
    /\ calls > 0
    /\ ~MapHit(src)
    /\ fifo0 = <<>>
    /\ ~LooksLikeMediaId(src)

\* C4, as stated: with no map hit, no queue entry and no media id in src, an
\* absolute src is returned as a URL, any other src is returned as a URL
\* (joined to the base URL) when a base URL is supplied, and the result is
\* "unresolved" only when neither applies.
C4_UrlFallbacks ==
    (NothingButTheUrl /\ src # <<>>) =>
        IF IsAbsoluteUrl(src) THEN result = ValStr(src)
        ELSE IF base_url # NoBase THEN result.kind = "str"
        ELSE result = ValNone

\* C4, amended: with no map hit, no queue entry and no media id in src, the
\* result is None whether or not src is absolute or a base URL is supplied,
\* and wrap_image makes no block of it.
C4_NoUrlFallback ==
    NothingButTheUrl =>
        /\ result = ValNone
        /\ images_fifo = fifo0
        /\ pc = "call" => wrapped = NoBlock

\* C4's case: an absolute URL was resolved to None, a base URL supplied, and
\* wrap_image has been given the result.
C4_Witness ==
    /\ NothingButTheUrl
    /\ IsAbsoluteUrl(src)
    /\ base_url # NoBase
    /\ result = ValNone
    /\ pc = "call"

\* C6: ensure_spacing with the same required count, and the closing trim,
\* change nothing when applied to their own result.
C6_Idempotent == pc \in {"ensured twice", "trimmed twice"} => twice = once

\* C6's case: ensure_spacing added to, or took from, the Spacers a sequence
\* ended with, and was applied again.
C6_Witness ==
    /\ pc = "ensured twice"
    /\ required > 0
    /\ once # nodes
    /\ CountTrailingEmptyParagraphs(nodes) > 0

====
